---- MODULE Spec2Model ----
(***************************************************************************)
(* The sequence codec (VecEncoder / VecDecoder), the bit-packed boolean    *)
(* codec (BoolEncoder / BoolDecoder) and the Buffer / Encoder / View /     *)
(* Decoder protocol of bitcode, as a state machine.                        *)
(*                                                                         *)
(* Elements are naturals.  A cell of a buffer that holds no element value  *)
(* (uninitialised spare capacity, or the bytes a wild copy read past the   *)
(* end of its source slice) holds Garbage: the value there is whatever the *)
(* build leaves in memory, so no property may depend on it, and a Garbage  *)
(* cell that reaches committed data is reported by the properties below.   *)
(***************************************************************************)
EXTENDS Integers, Sequences, FiniteSets, TLC

VARIABLES T, kind, build, enc, outer, hist, out, outBefore, sent, drains,
          dec, input, fed, decoded, trace, benc, bdec, wc

vars == <<T, kind, build, enc, outer, hist, out, outBefore, sent, drains,
          dec, input, fed, decoded, trace, benc, bdec, wc>>

(***************************************************************************)
(* Bounds of the model.                                                    *)
(***************************************************************************)
\* Longest collection encoded by the flat sessions.
MaxLen == 3
\* Most collections encoded into one encoder between two collects.
MaxColls == 2
\* Element values of the integer element types are 1..MaxVal.
MaxVal == 3
\* Most booleans encoded into a BoolEncoder between two collects.
MaxBools == 1000

\* coder.rs: pub const MAX_VECTORED_CHUNK: usize = 64;
MAX_VECTORED_CHUNK == 64

Garbage == 0 - 1

EncIds == {1, 2}

(***************************************************************************)
(* Mathematical helpers.                                                   *)
(***************************************************************************)
Range(s) == {s[i] : i \in DOMAIN s}

Min(a, b) == IF a <= b THEN a ELSE b

Max(a, b) == IF a >= b THEN a ELSE b

RECURSIVE SumSeq(_)
SumSeq(s) == IF s = <<>> THEN 0 ELSE s[1] + SumSeq(Tail(s))

RECURSIVE Concat(_)
Concat(ss) == IF ss = <<>> THEN <<>> ELSE ss[1] \o Concat(Tail(ss))

Reverse(s) == [i \in 1..Len(s) |-> s[Len(s) + 1 - i]]

SetMax(S) == CHOOSE x \in S : \A y \in S : y <= x

SetMin(S) == CHOOSE x \in S : \A y \in S : x <= y

RECURSIVE SortAsc(_)
SortAsc(S) == IF S = {} THEN <<>> ELSE <<SetMin(S)>> \o SortAsc(S \ {SetMin(S)})

\* The multiset of a sequence, as a function from its values to their counts.
BagOf(s) == [v \in Range(s) |-> Cardinality({i \in DOMAIN s : s[i] = v})]

Repeat(x, n) == [k \in 1..n |-> x]

\* The elements of a bag in ascending order, each as often as it occurs.
RECURSIVE BagAsc(_)
BagAsc(b) ==
    IF DOMAIN b = {} THEN <<>>
    ELSE LET m == SetMin(DOMAIN b)
         IN Repeat(m, b[m]) \o BagAsc([v \in DOMAIN b \ {m} |-> b[v]])

CeilDiv(a, b) == (a + b - 1) \div b

RECURSIVE Pow2(_)
Pow2(k) == IF k = 0 THEN 1 ELSE 2 * Pow2(k - 1)

(***************************************************************************)
(* Element types: the types whose encoder exposes as_primitive().          *)
(***************************************************************************)
ElemTypes == {"bool", "u8", "u16", "u32", "u64", "u128"}

\* std::mem::size_of::<T>()
SizeOf(t) ==
    CASE t = "bool" -> 1
      [] t = "u8" -> 1
      [] t = "u16" -> 2
      [] t = "u32" -> 4
      [] t = "u64" -> 8
      [] t = "u128" -> 16

Values(t) == IF t = "bool" THEN {0, 1} ELSE 1..MaxVal

\* The k-th value of type t, for building input data.
Val(t, k) == IF t = "bool" THEN k % 2 ELSE 1 + (k % MaxVal)

\* An input sequence of n elements: start, start + step, ...
Gen(t, n, start, step) == [i \in 1..n |-> Val(t, start + step * (i - 1))]

(***************************************************************************)
(* fast::VecImpl<T>: a growable array with unchecked writes.  data is the  *)
(* committed part (up to the end pointer); cap is the capacity in elements *)
(* that the reserve calls since the last clear guarantee (the allocation   *)
(* may be larger, never smaller); oob records that some write went past    *)
(* that capacity.                                                          *)
(***************************************************************************)
VecImpl_default == [data |-> <<>>, cap |-> 0, oob |-> FALSE]

\* reserve(additional): room for `additional` more elements after the end
\* pointer.  The least capacity that satisfies the request is kept.
VecImpl_reserve(v, additional) ==
    IF v.cap - Len(v.data) >= additional THEN v
    ELSE [v EXCEPT !.cap = Len(v.data) + additional]

\* push_unchecked(t)
VecImpl_push_unchecked(v, t) ==
    [v EXCEPT !.data = Append(@, t), !.oob = @ \/ Len(v.data) + 1 > v.cap]

\* clear(): nothing is committed, and nothing is reserved until the next
\* reserve.
VecImpl_clear(v) == [v EXCEPT !.data = <<>>, !.cap = 0]

\* The n elements copy_nonoverlapping(src as *const u8, dst as *mut u8,
\* n * size_of::<T>()) moves.
copy_nonoverlapping_unaligned(src, n) == SubSeq(src, 1, n)

\* Write `s` at end_ptr() and set_end_ptr(ptr.add(Len(s))).
VecImpl_write_at_end(v, s) ==
    [v EXCEPT !.data = @ \o s, !.oob = @ \/ Len(v.data) + Len(s) > v.cap]

(***************************************************************************)
(* The length sub-codec (external to the core): it records lengths and     *)
(* emits them first; its byte encoding is opaque, one byte per recorded    *)
(* length here (every length of the model is below 255).                   *)
(***************************************************************************)
LengthEncoder_default == VecImpl_default

LengthEncoder_reserve(l, additional) == VecImpl_reserve(l, additional)

LengthEncoder_encode(l, n) == VecImpl_push_unchecked(l, n)

LengthEncoder_bytes(lens) == [i \in 1..Len(lens) |-> lens[i] % 256]

LengthEncoder_collect_into(l, o) ==
    [me |-> VecImpl_clear(l), out |-> o \o LengthEncoder_bytes(l.data)]

(***************************************************************************)
(* pack::pack_bools / unpack_bools: eight booleans per byte, boolean i at  *)
(* bit i % 8 of byte i / 8.                                                *)
(***************************************************************************)
RECURSIVE PackByte(_, _)
PackByte(bits, k) ==
    IF bits = <<>> THEN 0 ELSE bits[1] * Pow2(k) + PackByte(Tail(bits), k + 1)

pack_bools(bools) ==
    [j \in 1..CeilDiv(Len(bools), 8) |->
        PackByte(SubSeq(bools, 8 * (j - 1) + 1, Min(8 * j, Len(bools))), 0)]

\* Reads ceil(length / 8) bytes; too few is a validation error.
unpack_bools(inp, length) ==
    LET nb == CeilDiv(length, 8)
    IN IF Len(inp) < nb THEN [ok |-> FALSE, bools |-> <<>>, input |-> inp]
       ELSE [ok |-> TRUE,
             bools |-> [i \in 1..length |->
                          (inp[((i - 1) \div 8) + 1] \div Pow2((i - 1) % 8)) % 2],
             input |-> SubSeq(inp, nb + 1, Len(inp))]

(***************************************************************************)
(* bool.rs: BoolEncoder(VecImpl<bool>) and BoolDecoder.                    *)
(***************************************************************************)
BoolEncoder_default == VecImpl_default

\* Mutant: the boolean is pushed twice.
BoolEncoder_encode_twice(me, t) ==
    VecImpl_push_unchecked(VecImpl_push_unchecked(me, t), t)

BoolEncoder_encode(me, t) == VecImpl_push_unchecked(me, t)

BoolEncoder_reserve(me, additional) == VecImpl_reserve(me, additional)

\* Mutant: the unpacked buffer is not cleared.
BoolEncoder_collect_into_noclear(me, o) ==
    [me |-> me, out |-> o \o pack_bools(me.data)]

BoolEncoder_collect_into(me, o) ==
    [me |-> VecImpl_clear(me), out |-> o \o pack_bools(me.data)]

\* A decoder over a flat array of elements: data, the cursor pos, and
\* overread, set when a read or an advance went past the populated data.
ElemDecoder_default == [data |-> <<>>, pos |-> 0, overread |-> FALSE]

BoolDecoder_populate(me, inp, length) ==
    LET u == unpack_bools(inp, length)
    IN IF u.ok
       THEN [ok |-> TRUE, me |-> [data |-> u.bools, pos |-> 0, overread |-> FALSE],
             input |-> u.input]
       ELSE [ok |-> FALSE, me |-> me, input |-> inp]

\* as_primitive_ptr(): the cells from the cursor on; reading one that was
\* never populated yields Garbage.
ElemDecoder_read(me, n) ==
    [i \in 1..n |-> IF me.pos + i <= Len(me.data) THEN me.data[me.pos + i] ELSE Garbage]

\* as_primitive_advance(n)
ElemDecoder_advance(me, n) ==
    [me EXCEPT !.pos = @ + n, !.overread = @ \/ me.pos + n > Len(me.data)]

\* decode(): next_unchecked()
ElemDecoder_decode(me) ==
    [value |-> ElemDecoder_read(me, 1)[1], me |-> ElemDecoder_advance(me, 1)]

(***************************************************************************)
(* The integer element codecs (external): the encoder is a VecImpl<T>, the *)
(* bytes of an element are its size_of::<T>() bytes, low byte first        *)
(***************************************************************************)
\* (every element value of the model is below 2^24, so the bytes after the
\* third are zero.)
ElemByte(x, b) == IF b <= 3 THEN (x \div Pow2(8 * (b - 1))) % 256 ELSE 0

PrimBytes(t, data) ==
    LET sz == SizeOf(t)
    IN [k \in 1..(Len(data) * sz) |->
          ElemByte(data[((k - 1) \div sz) + 1], ((k - 1) % sz) + 1)]

RECURSIVE BytesValue(_)
BytesValue(bs) == IF bs = <<>> THEN 0 ELSE bs[1] + 256 * BytesValue(Tail(bs))

IntDecoder_populate(t, me, inp, length) ==
    LET sz == SizeOf(t)
    IN IF Len(inp) < length * sz THEN [ok |-> FALSE, me |-> me, input |-> inp]
       ELSE [ok |-> TRUE,
             me |-> [data |-> [i \in 1..length |->
                                 BytesValue(SubSeq(inp, sz * (i - 1) + 1, sz * i))],
                     pos |-> 0, overread |-> FALSE],
             input |-> SubSeq(inp, length * sz + 1, Len(inp))]

\* T::Encoder, by element type.
Elements_encode(t, el, x) ==
    IF t = "bool" THEN BoolEncoder_encode(el, x) ELSE VecImpl_push_unchecked(el, x)

Elements_reserve(t, el, additional) ==
    IF t = "bool" THEN BoolEncoder_reserve(el, additional)
    ELSE VecImpl_reserve(el, additional)

Elements_collect_into(t, el, o) ==
    IF t = "bool" THEN BoolEncoder_collect_into(el, o)
    ELSE [me |-> VecImpl_clear(el), out |-> o \o PrimBytes(t, el.data)]

\* T::Decoder, by element type.
Elements_populate(t, me, inp, length) ==
    IF t = "bool" THEN BoolDecoder_populate(me, inp, length)
    ELSE IntDecoder_populate(t, me, inp, length)

(***************************************************************************)
(* vec.rs: VecEncoder<T>.  vectored_impl is the cached function pointer:   *)
(* none, encode_vectored_max_len::<I, N>, or encode_vectored_fallback.     *)
(* tried (not a field of the program) lists the strategies run on behalf   *)
(* of the last encode of the enclosing encoder, in order.                  *)
(***************************************************************************)
NoImpl == [k |-> "none", N |-> 0]

MaxLenImpl(N) == [k |-> "max_len", N |-> N]

FallbackImpl == [k |-> "fallback", N |-> 0]

VecEncoder_default ==
    [lengths |-> LengthEncoder_default, elements |-> VecImpl_default,
     vectored_impl |-> NoImpl, tried |-> <<>>]

\* Mutant: the elements are collected before the lengths.
VecEncoder_collect_into_swapped(t, me, o) ==
    LET b == Elements_collect_into(t, me.elements, o)
        a == LengthEncoder_collect_into(me.lengths, b.out)
    IN [me |-> [me EXCEPT !.lengths = a.me, !.elements = b.me], out |-> a.out]

\* Buffer::collect_into for VecEncoder: lengths first, then elements.
VecEncoder_collect_into(t, me, o) ==
    LET a == LengthEncoder_collect_into(me.lengths, o)
        b == Elements_collect_into(t, me.elements, a.out)
    IN [me |-> [me EXCEPT !.lengths = a.me, !.elements = b.me], out |-> b.out]

\* Buffer::collect: collect_into a new Vec.
Buffer_collect(t, me) == VecEncoder_collect_into(t, me, <<>>)

\* Buffer::reserve for VecEncoder: only the lengths can be reserved.
VecEncoder_reserve(me, additional) ==
    [me EXCEPT !.lengths = LengthEncoder_reserve(@, additional)]

\* page_size of unsafe_wild_copy!
page_size == 4096

\* The address of the j-th slice of a batch whose first slice lies at a0.
SrcAddr(a0, j) == a0 + MAX_VECTORED_CHUNK * (j - 1)

\* Mutant: the headroom is counted in elements, not in bytes.
within_page_elements(t, N, src, wild_build) ==
    /\ (src % page_size) < page_size - N
    /\ wild_build

\* within_page of unsafe_wild_copy!: the source lies far enough before the
\* end of its page for a read of [T; N], and the build allows the wild read.
within_page(t, N, src, wild_build) ==
    /\ (src % page_size) < page_size - N * SizeOf(t)
    /\ wild_build

\* unsafe_wild_copy!([T; N], src, dst, n): the cells written at dst.  The
\* [T; N] read takes the n elements of the slice and N - n cells past it.
unsafe_wild_copy(t, N, s, src, wild_build) ==
    IF within_page(t, N, src, wild_build)
    THEN s \o Repeat(Garbage, N - Len(s))
    ELSE copy_nonoverlapping_unaligned(s, Len(s))

\* The cells after the end pointer with `block` written at offset dst; a
\* cell never written holds Garbage.
Overwrite(w, dst, block) ==
    LET w0 == IF dst > Len(w) THEN w \o Repeat(Garbage, dst - Len(w)) ELSE w
    IN SubSeq(w0, 1, dst) \o block \o SubSeq(w0, dst + Len(block) + 1, Len(w0))

\* set_end_ptr(dst): the n cells that become committed data.
Committed(w, n) == [k \in 1..n |-> IF k <= Len(w) THEN w[k] ELSE Garbage]

\* Mutant: dst moves past the whole block.
AdvanceDst_block(dst, n, N) == dst + N

\* dst = dst.add(n)
AdvanceDst(dst, n, N) == dst + n

\* The closure VecEncoder::encode_vectored_max_len passes to the length
\* encoder, called with slice j of the batch: wild-copy s at dst, advance
\* dst by its length.  w holds the cells written after the end pointer.
MaxLenClosure(st, s, j, N, me, cx) ==
    LET block == unsafe_wild_copy(cx.t, N, s, SrcAddr(cx.a0, j), cx.wild)
    IN [st EXCEPT
          !.w = Overwrite(@, st.dst, block),
          !.eoob = @ \/ Len(me.elements.data) + st.dst + Len(block)
                          > me.elements.cap,
          !.dst = AdvanceDst(@, Len(s), N)]

\* LengthEncoder::encode_vectored_max_len::<_, N>(i, f) for the slices
\* lo..hi of i: every length is written at the lengths' write pointer (lw
\* holds the cells written), an empty slice is skipped, a slice longer than
\* N ends the loop with `true`, any other slice is passed to f.  (The range
\* is walked in halves, first half first.)
RECURSIVE MaxLenLoop(_, _, _, _, _, _, _)
MaxLenLoop(i, lo, hi, N, st, me, cx) ==
    IF st.fail \/ lo > hi THEN st
    ELSE IF lo < hi
    THEN LET mid == (lo + hi) \div 2
         IN MaxLenLoop(i, mid + 1, hi, N, MaxLenLoop(i, lo, mid, N, st, me, cx), me, cx)
    ELSE LET n == Len(i[lo])
             st1 == [st EXCEPT
                       !.lw = Append(@, n % 256),
                       !.loob = @ \/ Len(me.lengths.data) + Len(st.lw) + 1
                                       > me.lengths.cap]
         IN IF n = 0 THEN st1
            ELSE IF n > N THEN [st1 EXCEPT !.fail = TRUE]
            ELSE MaxLenClosure(st1, i[lo], lo, N, me, cx)

\* Mutant: a width of 8 is allowed for elements of up to 16 bytes.
NextImpl_wide(N, size) ==
    CASE N = 1 /\ size <= 32 -> MaxLenImpl(2)
      [] N = 2 /\ size <= 16 -> MaxLenImpl(4)
      [] N = 4 /\ size <= 16 -> MaxLenImpl(8)
      [] N = 8 /\ size <= 4 -> MaxLenImpl(16)
      [] N = 16 /\ size <= 2 -> MaxLenImpl(32)
      [] N = 32 /\ size <= 1 -> MaxLenImpl(64)
      [] OTHER -> FallbackImpl

\* The strategy that replaces encode_vectored_max_len::<I, N> when a slice
\* is longer than N.
NextImpl(N, size) ==
    CASE N = 1 /\ size <= 32 -> MaxLenImpl(2)
      [] N = 2 /\ size <= 16 -> MaxLenImpl(4)
      [] N = 4 /\ size <= 8 -> MaxLenImpl(8)
      [] N = 8 /\ size <= 4 -> MaxLenImpl(16)
      [] N = 16 /\ size <= 2 -> MaxLenImpl(32)
      [] N = 32 /\ size <= 1 -> MaxLenImpl(64)
      [] OTHER -> FallbackImpl

\* b, with the record a evaluated first: a loop is evaluated step by step,
\* not as one nested expression.
After(a, b) == IF DOMAIN a = {} THEN b ELSE b

\* The closure VecEncoder::encode_vectored_fallback passes to the length
\* encoder: reserve exactly, copy exactly.
FallbackClosure(el, s) ==
    LET n == Len(s)
        primitives == VecImpl_reserve(el, n)
    IN VecImpl_write_at_end(primitives, copy_nonoverlapping_unaligned(s, n))

\* LengthEncoder::encode_vectored_fallback(i, f) for the slices lo..hi of
\* i: every length is encoded and every slice passed to f.  (The range is
\* walked in halves, first half first.)
RECURSIVE FallbackLoop(_, _, _, _)
FallbackLoop(i, lo, hi, me) ==
    IF lo > hi THEN me
    ELSE IF lo < hi
    THEN LET mid == (lo + hi) \div 2
             first == FallbackLoop(i, lo, mid, me)
         IN After(first, FallbackLoop(i, mid + 1, hi, first))
    ELSE [me EXCEPT
            !.lengths = LengthEncoder_encode(@, Len(i[lo])),
            !.elements = FallbackClosure(@, i[lo])]

encode_vectored_fallback(me, i) ==
    FallbackLoop(i, 1, Len(i), [me EXCEPT !.tried = Append(@, FallbackImpl)])

\* Mutant: room for one element per slice is reserved.
ReserveBlocks_single(el, count, N) == VecImpl_reserve(el, count)

\* primitives.reserve(i.size_hint().1.unwrap() * N)
ReserveBlocks(el, count, N) == VecImpl_reserve(el, count * N)

\* Mutant: the strategy chosen on escalation is run but not stored.
StoreImpl_skip(me, impl) == me

\* self.vectored_impl = NonNull::new(...)
StoreImpl(me, impl) == [me EXCEPT !.vectored_impl = impl]

\* VecEncoder::encode_vectored_max_len::<I, N>(self, i)
RECURSIVE encode_vectored_max_len(_, _, _, _)
encode_vectored_max_len(me, i, N, cx) ==
    LET primitives == ReserveBlocks(me.elements, Len(i), N)
        me1 == [me EXCEPT !.elements = primitives,
                          !.tried = Append(@, MaxLenImpl(N))]
        st == MaxLenLoop(i, 1, Len(i), N,
                  [lw |-> <<>>, loob |-> FALSE, w |-> <<>>, dst |-> 0,
                   eoob |-> FALSE, fail |-> FALSE], me1, cx)
        me2 == [me1 EXCEPT !.lengths.oob = @ \/ st.loob,
                           !.elements.oob = @ \/ st.eoob]
    IN IF st.fail
       THEN LET next == NextImpl(N, SizeOf(cx.t))
                me3 == StoreImpl(me2, next)
            IN IF next.k = "max_len"
               THEN encode_vectored_max_len(me3, i, next.N, cx)
               ELSE encode_vectored_fallback(me3, i)
       ELSE [me2 EXCEPT
               !.lengths.data = @ \o st.lw,
               !.elements.data = @ \o Committed(st.w, st.dst)]

\* The strategy `inner` stores when none is cached.
FirstImpl(size) == MaxLenImpl(Max(8 \div size, 1))

\* Encoder<[T]>::encode_vectored for a primitive T: `inner`.
encode_vectored(me, i, cx) ==
    LET me1 == IF me.vectored_impl.k = "none"
               THEN [me EXCEPT !.vectored_impl = FirstImpl(SizeOf(cx.t))]
               ELSE me
    IN IF me1.vectored_impl.k = "max_len"
       THEN encode_vectored_max_len(me1, i, me1.vectored_impl.N, cx)
       ELSE encode_vectored_fallback(me1, i)

\* Encoder<[T]>::encode for a primitive T.
encode(me, v) ==
    LET n == Len(v)
        primitive == VecImpl_reserve(me.elements, n)
    IN [me EXCEPT
          !.lengths = LengthEncoder_encode(@, n),
          !.elements = VecImpl_write_at_end(
                           primitive, copy_nonoverlapping_unaligned(v, n))]

\* v.chunks(MAX_VECTORED_CHUNK), each chunk passed to encode_vectored.  j is
\* the index in v of the first slice not yet encoded.
RECURSIVE EncodeChunks(_, _, _, _)
EncodeChunks(me, v, j, cx) ==
    IF j > Len(v) THEN me
    ELSE LET last == Min(j + MAX_VECTORED_CHUNK - 1, Len(v))
         IN EncodeChunks(
                encode_vectored(me, SubSeq(v, j, last),
                                [cx EXCEPT !.a0 = SrcAddr(cx.a0, j)]),
                v, last + 1, cx)

\* Encoder<[Vec<T>]>::encode of the enclosing VecEncoder<Vec<T>>, whose
\* element encoder `me` is not primitive: ol is its own length encoder.
encode_nested(ol, me, v, cx) ==
    LET n == Len(v)
    IN [lengths |-> LengthEncoder_encode(ol, n),
        elements |-> IF n = 0 THEN [me EXCEPT !.tried = <<>>]
                     ELSE EncodeChunks(
                              VecEncoder_reserve([me EXCEPT !.tried = <<>>], n),
                              v, 1, cx)]

\* encode_body! / encode_body_internal_iteration!: `it` is the collection in
\* the order its iterator yields it.
encode_body(t, me, it) ==
    LET n == Len(it)
        F[k \in 0..n] ==
            IF k = 0 THEN Elements_reserve(t, me.elements, n)
            ELSE Elements_encode(t, F[k - 1], it[k])
    IN [me EXCEPT
          !.lengths = LengthEncoder_encode(@, n),
          !.elements = IF n = 0 THEN @ ELSE F[n]]

(***************************************************************************)
(* vec.rs: VecDecoder<T>, with the length sub-codec's decoder (external):  *)
(* populate reads `length` lengths, length() is their sum, decode() yields *)
(* them one by one.                                                        *)
(***************************************************************************)
LengthDecoder_default == [vals |-> <<>>, pos |-> 0]

LengthDecoder_populate(me, inp, length) ==
    IF Len(inp) < length THEN [ok |-> FALSE, me |-> me, input |-> inp]
    ELSE [ok |-> TRUE,
          me |-> [vals |-> SubSeq(inp, 1, length), pos |-> 0],
          input |-> SubSeq(inp, length + 1, Len(inp))]

LengthDecoder_length(me) == SumSeq(me.vals)

LengthDecoder_decode(me) ==
    [value |-> me.vals[me.pos + 1], me |-> [me EXCEPT !.pos = @ + 1]]

VecDecoder_default ==
    [lengths |-> LengthDecoder_default, elements |-> ElemDecoder_default,
     populated |-> <<>>]

\* Mutant: the element decoder is populated with the number of collections.
VecDecoder_populate_count(t, me, inp, length) ==
    LET a == LengthDecoder_populate(me.lengths, inp, length)
    IN IF ~a.ok THEN [ok |-> FALSE, me |-> me, input |-> a.input]
       ELSE LET b == Elements_populate(t, me.elements, a.input, length)
            IN [ok |-> b.ok,
                me |-> [lengths |-> a.me, elements |-> b.me,
                        populated |-> <<<<"lengths", length>>>>
                                      \o IF b.ok THEN <<<<"elements", length>>>> ELSE <<>>],
                input |-> b.input]

\* View::populate for VecDecoder.  populated (not a field of the program)
\* lists the sub-decoders populated, with the length each was given.
VecDecoder_populate(t, me, inp, length) ==
    LET a == LengthDecoder_populate(me.lengths, inp, length)
    IN IF ~a.ok THEN [ok |-> FALSE, me |-> me, input |-> a.input]
       ELSE LET n == LengthDecoder_length(a.me)
                b == Elements_populate(t, me.elements, a.input, n)
            IN [ok |-> b.ok,
                me |-> [lengths |-> a.me, elements |-> b.me,
                        populated |-> <<<<"lengths", length>>>>
                                      \o IF b.ok THEN <<<<"elements", n>>>> ELSE <<>>],
                input |-> b.input]

\* Mutant: the cursor of the element decoder is not advanced.
decode_in_place_noadvance(me) ==
    LET l == LengthDecoder_decode(me.lengths)
        length == l.value
    IN IF length = 0
       THEN [me |-> [me EXCEPT !.lengths = l.me], value |-> <<>>,
             allocated |-> FALSE, reads |-> 0]
       ELSE [me |-> [me EXCEPT !.lengths = l.me],
             value |-> ElemDecoder_read(me.elements, length),
             allocated |-> TRUE, reads |-> length]

\* Mutant: no fast path for a length of zero.
decode_in_place_nofast(me) ==
    LET l == LengthDecoder_decode(me.lengths)
        length == l.value
    IN [me |-> [me EXCEPT !.lengths = l.me,
                          !.elements = ElemDecoder_advance(@, length)],
        value |-> ElemDecoder_read(me.elements, length),
        allocated |-> TRUE, reads |-> length]

\* Decoder<Vec<T>>::decode_in_place for a primitive T.  allocated says
\* whether Vec::with_capacity was called, reads how many element cells were
\* read.
decode_in_place(me) ==
    LET l == LengthDecoder_decode(me.lengths)
        length == l.value
    IN IF length = 0
       THEN [me |-> [me EXCEPT !.lengths = l.me], value |-> <<>>,
             allocated |-> FALSE, reads |-> 0]
       ELSE [me |-> [me EXCEPT !.lengths = l.me,
                               !.elements = ElemDecoder_advance(@, length)],
             value |-> ElemDecoder_read(me.elements, length),
             allocated |-> TRUE, reads |-> length]

\* decode_body!: (0..self.lengths.decode()).map(|_| self.elements.decode()),
\* as the sequence the iterator yields.
decode_body(me) ==
    LET l == LengthDecoder_decode(me.lengths)
        length == l.value
        F[k \in 0..length] ==
            IF k = 0 THEN [el |-> me.elements, vs |-> <<>>]
            ELSE LET d == ElemDecoder_decode(F[k - 1].el)
                 IN [el |-> d.me, vs |-> Append(F[k - 1].vs, d.value)]
    IN [me |-> [me EXCEPT !.lengths = l.me, !.elements = F[length].el],
        value |-> F[length].vs, allocated |-> length > 0, reads |-> length]

(***************************************************************************)
(* Collections.  A Vec, VecDeque or LinkedList is the sequence of its      *)
(* elements, a HashSet or BTreeSet their set, a BinaryHeap their multiset. *)
(***************************************************************************)
Kinds == {"Vec", "HashSet", "BTreeSet", "VecDeque", "LinkedList", "BinaryHeap"}

\* The collection of kind k built from the elements s (collect / into).
FromSeq(k, s) ==
    CASE k \in {"Vec", "VecDeque", "LinkedList"} -> s
      [] k \in {"HashSet", "BTreeSet"} -> Range(s)
      [] k = "BinaryHeap" -> BagOf(s)

\* The orders in which iterating the collection x may yield its elements:
\* a BTreeSet ascending, a HashSet and a BinaryHeap in an order of their own.
IterOrders(k, x) ==
    CASE k \in {"Vec", "VecDeque", "LinkedList"} -> {x}
      [] k = "BTreeSet" -> {SortAsc(x)}
      [] k = "HashSet" -> {SortAsc(x), Reverse(SortAsc(x))}
      [] k = "BinaryHeap" -> {BagAsc(x), Reverse(BagAsc(x))}

\* The encode of Encoder<K<T>> for VecEncoder<T>, by collection kind.
encode_collection(t, k, me, it) ==
    IF k = "Vec" THEN encode(me, it) ELSE encode_body(t, me, it)

\* The decode of Decoder<K<T>> for VecDecoder<T>, by collection kind.
decode_collection(k, me) ==
    LET d == IF k \in {"Vec", "VecDeque", "BinaryHeap"} THEN decode_in_place(me)
             ELSE decode_body(me)
    IN [d EXCEPT !.value = FromSeq(k, @)]

\* The input collections of a session: built from runs of values.
InputSeqs(t) == {Gen(t, n, 0, step) : n \in 0..MaxLen, step \in 0..2}

\* What the caller's Vec<u8> holds before collect_into: nothing (collect),
\* or earlier bytes.
OutPrefixes == {<<>>, <<255>>}

(***************************************************************************)
(* The state machine of a flat session: collections of primitive elements  *)
(* are encoded into encoder 1, collected, and decoded from the bytes.      *)
(***************************************************************************)
DecIdle ==
    [me |-> VecDecoder_default, state |-> "default", budget |-> 0, done |-> 0]

\* No unsafe_wild_copy! has been observed on its own.
NoCopy == [called |-> FALSE]

\* What is remembered of the vectored encodes of an encoder: the strategy
\* cached before the last one, the longest slice of the last one, the
\* longest slice of all of them, and whether there was one.
NoTrace == [before |-> NoImpl, maxlen |-> 0, maxseen |-> 0, called |-> FALSE]

InitCommon ==
    /\ enc = [e \in EncIds |-> VecEncoder_default]
    /\ outer = [e \in EncIds |-> LengthEncoder_default]
    /\ hist = [e \in EncIds |-> <<>>]
    /\ out = <<>>
    /\ outBefore = <<>>
    /\ sent = <<>>
    /\ drains = [e \in EncIds |-> 0]
    /\ dec = DecIdle
    /\ input = <<>>
    /\ fed = [bytes |-> <<>>, length |-> 0, cut |-> 0]
    /\ decoded = <<>>
    /\ trace = [e \in EncIds |-> NoTrace]
    /\ benc = BoolEncoder_default
    /\ bdec = ElemDecoder_default
    /\ wc = NoCopy

\* The build: whether it allows the wild read of unsafe_wild_copy! (not
\* miri, no debug_assertions, x86 / x86_64 / aarch64), and the address a0 of
\* the first slice of every batch.
ReleaseBuild == [wild |-> TRUE, a0 |-> 0]

Init ==
    /\ T \in {"u8", "bool"}
    /\ kind \in Kinds
    /\ build = ReleaseBuild
    /\ InitCommon

\* The caller's reserve(additional) before its encodes.
Reserve(e) ==
    /\ dec.state = "default"
    /\ drains[e] = 0
    /\ Len(hist[e]) < MaxColls
    /\ enc[e].lengths.cap = Len(enc[e].lengths.data)
    /\ \E additional \in 1..(MaxColls - Len(hist[e])) :
          enc' = [enc EXCEPT ![e] = VecEncoder_reserve(@, additional)]
    /\ UNCHANGED <<T, kind, build, wc, outer, hist, out, outBefore, sent, drains,
                   dec, input, fed, decoded, trace, benc, bdec>>

\* encode(&collection) of the session's kind, within the reservation.
EncodeColl(e) ==
    /\ dec.state = "default"
    /\ drains[e] = 0
    /\ Len(hist[e]) < MaxColls
    /\ enc[e].lengths.cap > Len(enc[e].lengths.data)
    /\ \E s \in InputSeqs(T) :
          LET x == FromSeq(kind, s)
          IN \E it \in IterOrders(kind, x) :
                LET me == encode_collection(T, kind, enc[e], it)
                IN /\ enc' = [enc EXCEPT ![e] = me]
                   /\ hist' = [hist EXCEPT ![e] =
                                 Append(@, [value |-> x, it |-> it, slices |-> <<it>>,
                                            lens |-> SubSeq(me.lengths.data,
                                                            Len(enc[e].lengths.data) + 1,
                                                            Len(me.lengths.data)),
                                            elems |-> Len(me.elements.data)
                                                      - Len(enc[e].elements.data),
                                            cap |-> me.elements.cap
                                                    - enc[e].elements.cap])]
    /\ UNCHANGED <<T, kind, build, wc, outer, out, outBefore, sent, drains,
                   dec, input, fed, decoded, trace, benc, bdec>>

\* collect() / collect_into(out) on the encoder.  sent is what was pending
\* at the first collect since the encodes.
Collect(e) ==
    /\ dec.state = "default"
    /\ drains[e] < 2
    /\ \E prefix \in OutPrefixes :
          LET r == VecEncoder_collect_into(T, enc[e], prefix)
          IN /\ enc' = [enc EXCEPT ![e] = r.me]
             /\ out' = r.out
             /\ outBefore' = prefix
    /\ sent' = IF drains[e] = 0 THEN hist[e] ELSE sent
    /\ hist' = [hist EXCEPT ![e] = <<>>]
    /\ drains' = [drains EXCEPT ![e] = @ + 1]
    /\ UNCHANGED <<T, kind, build, wc, outer, dec, input, fed, decoded, trace, benc, bdec>>

\* The bytes the last collect appended.
Collected == SubSeq(out, Len(outBefore) + 1, Len(out))

\* The caller is done with the collected bytes and uses the encoder again.
Reuse(e) ==
    /\ dec.state = "default"
    /\ drains[e] > 0
    /\ drains' = [drains EXCEPT ![e] = 0]
    /\ out' = <<>>
    /\ outBefore' = <<>>
    /\ sent' = <<>>
    /\ enc' = [enc EXCEPT ![e].tried = <<>>]
    /\ trace' = [trace EXCEPT ![e].before = NoImpl, ![e].maxlen = 0]
    /\ UNCHANGED <<T, kind, build, wc, outer, hist, dec, input, fed, decoded, benc, bdec>>

\* How many bytes may be missing from the end of the input: none, the last
\* one, or all of them.
Cuts(bytes) == {0, Min(1, Len(bytes)), Len(bytes)}

\* decoder.populate(&mut input, length) on the collected bytes, or on a
\* truncation of them, for a number of collections that may be wrong.  The
\* bytes move to the decoder and the encoder's session ends.
Populate ==
    /\ dec.state = "default"
    /\ drains[1] = 1
    /\ \E cut \in Cuts(Collected),
          length \in {Max(Len(sent) - 1, 0), Len(sent), Len(sent) + 1} :
          LET bytes == SubSeq(Collected, 1, Len(Collected) - cut)
              r == VecDecoder_populate(T, dec.me, bytes, length)
          IN /\ dec' = [me |-> r.me, state |-> IF r.ok THEN "ok" ELSE "err",
                        budget |-> length, done |-> 0]
             /\ input' = r.input
             /\ fed' = [bytes |-> bytes, length |-> length, cut |-> cut]
    /\ enc' = [e \in EncIds |-> VecEncoder_default]
    /\ out' = <<>>
    /\ outBefore' = <<>>
    /\ UNCHANGED <<T, kind, build, wc, outer, hist, sent, drains, decoded, trace, benc, bdec>>

\* decode() of one collection; populate allows `length` of them.
DecodeColl ==
    /\ dec.state = "ok"
    /\ dec.done < dec.budget
    /\ LET d == decode_collection(kind, dec.me)
       IN /\ dec' = [dec EXCEPT !.me = d.me, !.done = @ + 1]
          /\ decoded' = Append(decoded,
                               [value |-> d.value, allocated |-> d.allocated,
                                reads |-> d.reads,
                                length |-> dec.me.lengths.vals[dec.me.lengths.pos + 1],
                                posBefore |-> dec.me.elements.pos,
                                posAfter |-> d.me.elements.pos])
    /\ UNCHANGED <<T, kind, build, wc, enc, outer, hist, out, outBefore, sent, drains,
                   input, fed, trace, benc, bdec>>

Next ==
    \/ Reserve(1)
    \/ EncodeColl(1)
    \/ Collect(1)
    \/ Populate
    \/ DecodeColl

Spec == Init /\ [][Next]_vars

(***************************************************************************)
(* Properties of the flat sessions.                                        *)
(***************************************************************************)
\* The bytes of the elements `data` as the element encoder of T emits them.
ElemWire(t, data) == IF t = "bool" THEN pack_bools(data) ELSE PrimBytes(t, data)

\* populate was given exactly the collected bytes and the number of
\* collections encoded.
FedExact == dec.state # "default" /\ fed.cut = 0 /\ fed.length = Len(sent)

\* C1: round trip.  Decoding the collected bytes of any collections of a
\* supported kind yields, one by one, collections equal to the encoded ones
\* under the kind's equality (sequence, set, multiset), consuming the whole
\* input.
RoundTrip ==
    FedExact =>
        /\ dec.state = "ok"
        /\ input = <<>>
        /\ Len(decoded) <= Len(sent)
        /\ \A i \in 1..Len(decoded) : decoded[i].value = sent[i].value

RoundTripWitness ==
    /\ FedExact
    /\ kind = "BinaryHeap"
    /\ Len(decoded) = 2
    /\ Len(sent) = 2
    /\ sent[1].it = <<3, 1>>
    /\ decoded[1].value = BagOf(<<1, 3>>)
    /\ Len(sent[2].it) = 3

\* C2: wire layout.  What collect_into appends to `out` is the length
\* sub-codec's bytes of the recorded lengths followed at once by the element
\* encoder's bytes of all elements in encode order; for the u8 sequence
\* [1, 2, 3] that is the encoding of 3 and then the bytes 1, 2, 3.
WireLayout ==
    (drains[1] = 1 /\ dec.state = "default") =>
        /\ out = outBefore
                 \o LengthEncoder_bytes([i \in 1..Len(sent) |-> Len(sent[i].it)])
                 \o ElemWire(T, Concat([i \in 1..Len(sent) |-> sent[i].it]))
        /\ (T = "u8" /\ Len(sent) = 1 /\ sent[1].it = <<1, 2, 3>>)
              => Collected = LengthEncoder_bytes(<<3>>) \o <<1, 2, 3>>

WireLayoutWitness ==
    /\ drains[1] = 1
    /\ dec.state = "default"
    /\ T = "u8"
    /\ Len(sent) = 1
    /\ sent[1].it = <<1, 2, 3>>
    /\ out = <<255, 3, 1, 2, 3>>

\* C5: populate validates before any decode.  The lengths are populated
\* first and the elements with the total the lengths report; a failure
\* leaves nothing decoded, and a failure of the lengths leaves the element
\* decoder unpopulated; after Ok the decodes never read past the populated
\* elements and `length` of them consume exactly all of them.
PopulateValidates ==
    /\ dec.state = "err" =>
          /\ decoded = <<>>
          /\ dec.me.elements = ElemDecoder_default
          /\ Len(fed.bytes) < fed.length => dec.me.populated = <<>>
    /\ dec.state = "ok" =>
          /\ dec.me.populated = << <<"lengths", fed.length>>,
                                   <<"elements", SumSeq(dec.me.lengths.vals)>> >>
          /\ Len(dec.me.lengths.vals) = fed.length
          /\ Len(dec.me.elements.data) = SumSeq(dec.me.lengths.vals)
          /\ ~dec.me.elements.overread
          /\ dec.me.elements.pos <= Len(dec.me.elements.data)
          /\ dec.done = dec.budget => dec.me.elements.pos = Len(dec.me.elements.data)
          /\ \A i \in 1..Len(decoded) : decoded[i].reads = decoded[i].length
    /\ (dec.state # "default" /\ fed.length = Len(sent) /\ sent # <<>>) =>
          (dec.state = "err" <=> fed.cut > 0)

PopulateValidatesWitness ==
    /\ dec.state = "ok"
    /\ dec.budget = 2
    /\ dec.done = 2
    /\ dec.me.elements.pos = 5

\* C6: empty collection.  Encoding an empty collection records the single
\* length 0 and gives the element encoder nothing, so the collected bytes
\* of empty collections are those of their zero lengths alone; decoding a
\* length of 0 yields the empty collection without allocating, without
\* reading an element and without moving the element cursor.
EmptyCollection ==
    /\ \A i \in 1..Len(hist[1]) :
          hist[1][i].it = <<>> =>
              /\ hist[1][i].lens = <<0>>
              /\ hist[1][i].elems = 0
              /\ hist[1][i].cap = 0
    /\ (drains[1] = 1 /\ dec.state = "default"
          /\ \A i \in 1..Len(sent) : sent[i].it = <<>>) =>
              Collected = LengthEncoder_bytes([i \in 1..Len(sent) |-> 0])
    /\ \A i \in 1..Len(decoded) :
          decoded[i].length = 0 =>
              /\ decoded[i].value = FromSeq(kind, <<>>)
              /\ ~decoded[i].allocated
              /\ decoded[i].reads = 0
              /\ decoded[i].posAfter = decoded[i].posBefore

EmptyCollectionWitness ==
    /\ FedExact
    /\ Len(decoded) = 2
    /\ sent[1].it # <<>>
    /\ sent[2].it = <<>>
    /\ decoded[2].length = 0
    /\ decoded[2].posBefore > 0

\* C7: destructive drain.  A collect leaves the encoder's pending lengths
\* and elements empty, and a collect that follows a collect with no encode
\* in between appends no byte.
IdempotentDrain ==
    /\ (drains[1] >= 1 /\ dec.state = "default") =>
          /\ enc[1].lengths.data = <<>>
          /\ enc[1].elements.data = <<>>
    /\ (drains[1] = 2 /\ dec.state = "default") => Collected = <<>>

\* Two collections of booleans were collected, and then nothing.
IdempotentDrainWitness ==
    /\ drains[1] = 2
    /\ dec.state = "default"
    /\ T = "bool"
    /\ Len(sent) = 2
    /\ sent[2].it # <<>>
    /\ outBefore = <<255>>
    /\ out = outBefore

(***************************************************************************)
(* Nested sessions: encoder e is the element encoder of a                  *)
(* VecEncoder<Vec<T>>, whose own length encoder is outer[e].               *)
(***************************************************************************)
\* Slice lengths around every block width of the element type: none, one,
\* the first width, and one more than each width up to eight times it.
SliceLens(t) ==
    LET N == FirstImpl(SizeOf(t)).N
    IN {0, 1, N} \cup {N * Pow2(k) + 1 : k \in 0..3}

\* A Vec<Vec<T>> of d.count slices: the slice at d.pos has d.s elements,
\* every other one d.base.
MkBatch(t, d) ==
    [j \in 1..d.count |-> Gen(t, IF j = d.pos THEN d.s ELSE d.base, j, 1)]

SmallInputs(t) ==
    {[count |-> 1, pos |-> 1, s |-> s, base |-> 1] : s \in SliceLens(t)}
    \cup {[count |-> 3, pos |-> 2, s |-> s, base |-> 1] :
            s \in {0, FirstImpl(SizeOf(t)).N + 1}}
    \cup {[count |-> 0, pos |-> 0, s |-> 0, base |-> 0]}

\* Outer lengths at the chunk size and one past it: every slice a full
\* block of the first width, or the last slice one longer than it.
BigInputs(t) ==
    LET N == FirstImpl(SizeOf(t)).N
    IN {[count |-> MAX_VECTORED_CHUNK, pos |-> MAX_VECTORED_CHUNK, s |-> N, base |-> N],
        [count |-> MAX_VECTORED_CHUNK, pos |-> MAX_VECTORED_CHUNK, s |-> N + 1,
         base |-> 1],
        [count |-> MAX_VECTORED_CHUNK + 1, pos |-> MAX_VECTORED_CHUNK + 1,
         s |-> N + 1, base |-> 1]}

\* The builds of a nested session: a release build with the first slice at
\* the start of a page or six bytes before the end of one, and a debug build.
Builds ==
    {ReleaseBuild, [wild |-> TRUE, a0 |-> page_size - 6], [wild |-> FALSE, a0 |-> 0]}

MaxSliceLen(v) == IF v = <<>> THEN 0 ELSE SetMax({Len(v[j]) : j \in 1..Len(v)})

\* The enclosing encoder's reserve(1) and encode(&v) for a Vec<Vec<T>> v.
EncodeNested(e, D) ==
    /\ dec.state = "default"
    /\ drains[e] = 0
    /\ Len(hist[e]) < MaxColls
    /\ \E d \in D :
          LET v == MkBatch(T, d)
              cx == [t |-> T, a0 |-> build.a0, wild |-> build.wild]
              r == encode_nested(LengthEncoder_reserve(outer[e], 1), enc[e], v, cx)
              me == r.elements
          IN /\ enc' = [enc EXCEPT ![e] = me]
             /\ outer' = [outer EXCEPT ![e] = r.lengths]
             /\ hist' = [hist EXCEPT ![e] =
                           Append(@, [value |-> <<>>, it |-> <<>>, slices |-> v,
                                      lens |-> SubSeq(me.lengths.data,
                                                      Len(enc[e].lengths.data) + 1,
                                                      Len(me.lengths.data)),
                                      elems |-> Len(me.elements.data)
                                                - Len(enc[e].elements.data),
                                      cap |-> me.elements.cap - enc[e].elements.cap])]
             /\ trace' = [trace EXCEPT ![e] =
                            [before |-> enc[e].vectored_impl,
                             maxlen |-> MaxSliceLen(v),
                             maxseen |-> Max(@.maxseen, MaxSliceLen(v)),
                             called |-> @.called \/ v # <<>>]]
    /\ UNCHANGED <<T, kind, build, wc, out, outBefore, sent, drains, dec, input, fed,
                   decoded, benc, bdec>>

\* A parent's reserve(1) and encode(&v) of one slice v.
EncodeSlice(e) ==
    /\ dec.state = "default"
    /\ drains[e] = 0
    /\ Len(hist[e]) < MaxColls
    /\ \E n \in {0, 3} :
          LET v == Gen(T, n, 0, 1)
              me == encode(VecEncoder_reserve(enc[e], 1), v)
          IN /\ enc' = [enc EXCEPT ![e] = me]
             /\ hist' = [hist EXCEPT ![e] =
                           Append(@, [value |-> <<>>, it |-> <<>>, slices |-> <<v>>,
                                      lens |-> <<n>>, elems |-> n,
                                      cap |-> me.elements.cap - enc[e].elements.cap])]
    /\ UNCHANGED <<T, kind, build, wc, outer, out, outBefore, sent, drains, dec, input,
                   fed, decoded, trace, benc, bdec>>

\* collect() on the enclosing encoder: its lengths, then encoder e.
CollectNested(e) ==
    /\ dec.state = "default"
    /\ drains[e] < 2
    /\ LET a == LengthEncoder_collect_into(outer[e], <<>>)
           r == VecEncoder_collect_into(T, enc[e], a.out)
       IN /\ outer' = [outer EXCEPT ![e] = a.me]
          /\ enc' = [enc EXCEPT ![e] = r.me]
          /\ out' = r.out
    /\ outBefore' = <<>>
    /\ sent' = hist[e]
    /\ hist' = [hist EXCEPT ![e] = <<>>]
    /\ drains' = [drains EXCEPT ![e] = @ + 1]
    /\ UNCHANGED <<T, kind, build, wc, dec, input, fed, decoded, trace, benc, bdec>>

InitVectored ==
    /\ T \in ElemTypes
    /\ kind = "Vec"
    /\ build \in Builds
    /\ InitCommon

NextVectored ==
    \/ EncodeNested(1, SmallInputs(T))
    \/ hist[1] = <<>> /\ EncodeNested(1, BigInputs(T))
    \/ EncodeSlice(1)
    \/ CollectNested(1)

SpecVectored == InitVectored /\ [][NextVectored]_vars

(***************************************************************************)
(* Properties of the nested sessions.                                      *)
(***************************************************************************)
\* C3. Reserve discipline: in every encode path (whole-slice encode,
\* encode_vectored_max_len::<N>, encode_vectored_fallback, batches of at
\* most 64) no write into the element buffer, and none into a length
\* buffer, went past the capacity reserved before it; in particular no
\* N-element block written at dst did, whatever the number of slices.
ReserveDiscipline ==
    /\ ~enc[1].elements.oob
    /\ ~enc[1].lengths.oob
    /\ ~outer[1].oob

\* A batch of 65 slices (chunks of 64 and 1, the second one escalating) and
\* then a batch of one slice that escalates again, with wild copies.
ReserveDisciplineWitness ==
    /\ T = "u8"
    /\ build = ReleaseBuild
    /\ Len(hist[1]) = 2
    /\ Len(hist[1][1].slices) = MAX_VECTORED_CHUNK + 1
    /\ Len(hist[1][2].slices) = 1
    /\ enc[1].tried = <<MaxLenImpl(16), MaxLenImpl(32)>>
    /\ enc[1].elements.cap > Len(enc[1].elements.data)

\* for t in i { self.encode(t) }, for the items lo..hi of i.  (The range is
\* walked in halves, first half first.)
RECURSIVE EncodeEach(_, _, _, _)
EncodeEach(me, i, lo, hi) ==
    IF lo > hi THEN me
    ELSE IF lo < hi
    THEN LET mid == (lo + hi) \div 2
             first == EncodeEach(me, i, lo, mid)
         IN After(first, EncodeEach(first, i, mid + 1, hi))
    ELSE encode(me, i[lo])

\* Encoder::encode_vectored as the trait defines it: encode once for every
\* item of i, in order, within the caller's reservation.
Encoder_encode_vectored(me, i) ==
    EncodeEach(VecEncoder_reserve(me, Max(Len(i), 1)), i, 1, Len(i))

\* The encoder that was given the slices of the encodes h one at a time.
Reference(h) ==
    LET G[b \in 0..Len(h)] ==
            IF b = 0 THEN VecEncoder_default
            ELSE Encoder_encode_vectored(G[b - 1], h[b].slices)
    IN G[Len(h)]

\* s ends with t.
EndsWith(s, t) ==
    /\ Len(t) <= Len(s)
    /\ SubSeq(s, Len(s) - Len(t) + 1, Len(s)) = t

\* C4. encode_vectored is equivalent to encode once per item: whatever
\* strategy was cached and whatever escalation the slice lengths forced,
\* the encoder holds the lengths and elements that encoding each slice
\* individually leaves (so nothing of a failed attempt is committed), and
\* the bytes collected are the bytes collected from that encoder.
VectoredEquivalence ==
    /\ drains[1] = 0 =>
          LET ref == Reference(hist[1])
          IN /\ enc[1].lengths.data = ref.lengths.data
             /\ enc[1].elements.data = ref.elements.data
    /\ drains[1] = 1 => EndsWith(out, Buffer_collect(T, Reference(sent)).out)

\* Collected: two batches, the second one met a cached width and escalated
\* through every width to the fallback.
VectoredEquivalenceWitness ==
    /\ T = "u64"
    /\ build = ReleaseBuild
    /\ drains[1] = 1
    /\ Len(sent) = 2
    /\ trace[1].before = MaxLenImpl(2)
    /\ enc[1].tried = <<MaxLenImpl(2), MaxLenImpl(4), MaxLenImpl(8), FallbackImpl>>
    /\ Len(out) > 2

\* "Use fallback for impls that copy more than 64 bytes."
MaxBlockBytes == 64

\* The bytes one block of the strategy copies.
BlockBytes(impl, t) == IF impl.k = "max_len" THEN impl.N * SizeOf(t) ELSE 0

\* The order of the strategies: none, the widths, the fallback.
Rank(impl) ==
    CASE impl.k = "none" -> 0
      [] impl.k = "max_len" -> impl.N
      [] impl.k = "fallback" -> MaxBlockBytes + 1

\* Width 2N if the doubled block is at most 64 bytes, else the fallback.
Doubled(impl, t) ==
    IF impl.k = "max_len" /\ 2 * impl.N * SizeOf(t) <= MaxBlockBytes
    THEN MaxLenImpl(2 * impl.N)
    ELSE FallbackImpl

\* The strategy reached from impl by doubling while a slice of m elements
\* does not fit.
RECURSIVE Escalate(_, _, _)
Escalate(impl, m, t) ==
    IF impl.k = "max_len" /\ m > impl.N THEN Escalate(Doubled(impl, t), m, t)
    ELSE impl

\* The width of the first strategy of an encoder of element type t.
FirstWidth(t) == Max(1, 8 \div SizeOf(t))

EscalationInv ==
    LET tr == enc[1].tried
        first == IF trace[1].before = NoImpl THEN MaxLenImpl(FirstWidth(T))
                 ELSE trace[1].before
    IN /\ FirstWidth(T) \in {1, 2, 4, 8}
       /\ BlockBytes(enc[1].vectored_impl, T) <= MaxBlockBytes
       /\ \A k \in 1..Len(tr) : BlockBytes(tr[k], T) <= MaxBlockBytes
       /\ \A k \in 1..(Len(tr) - 1) :
             \/ tr[k + 1] = tr[k]
             \/ tr[k].k = "max_len" /\ tr[k + 1] = Doubled(tr[k], T)
       /\ tr # <<>> =>
             /\ tr[1] = first
             /\ tr[Len(tr)] = Escalate(first, trace[1].maxlen, T)
             /\ enc[1].vectored_impl = tr[Len(tr)]

EscalationStep ==
    /\ Rank(enc'[1].vectored_impl) >= Rank(enc[1].vectored_impl)
    /\ enc[1].vectored_impl = FallbackImpl => enc'[1].vectored_impl = FallbackImpl

\* C9. Adaptive escalation: the first strategy is the width max(1, 8 / size)
\* (one of 1, 2, 4, 8); a batch with a slice longer than the width is
\* retried with the doubled width if the doubled block is at most 64 bytes
\* and with the fallback otherwise, until the longest slice fits; no
\* strategy copies more than 64 bytes per block; the cached width never
\* decreases and the fallback is never left.
Escalation == []EscalationInv /\ [][EscalationStep]_vars

\* A batch that met the cached width 8 and escalated to the fallback.
EscalationWitness ==
    /\ T = "u16"
    /\ trace[1].before = MaxLenImpl(8)
    /\ trace[1].maxlen = 33
    /\ enc[1].tried = <<MaxLenImpl(8), MaxLenImpl(16), MaxLenImpl(32), FallbackImpl>>
    /\ enc[1].vectored_impl = FallbackImpl

(***************************************************************************)
(* Two encoders of the same element type, each the element encoder of a    *)
(* VecEncoder<Vec<T>> of its own, used one after the other.                *)
(***************************************************************************)
\* One slice: of one element, one longer than the first width, one longer
\* than eight times the first width.
CacheInputs(t) ==
    {[count |-> 1, pos |-> 1, s |-> s, base |-> 1] :
        s \in {1, FirstWidth(t) + 1, 8 * FirstWidth(t) + 1}}

\* Encoder e holds nothing pending and nothing collected.
Idle(e) == hist[e] = <<>> /\ drains[e] = 0

InitCache ==
    /\ T \in {"u8", "u32"}
    /\ kind = "Vec"
    /\ build = ReleaseBuild
    /\ InitCommon

NextCache ==
    \/ \E e \in EncIds : Idle(3 - e) /\ EncodeNested(e, CacheInputs(T))
    \/ \E e \in EncIds : CollectNested(e)
    \/ \E e \in EncIds : Reuse(e)

SpecCache == InitCache /\ [][NextCache]_vars

\* C10 as stated: the cached strategy derives from the element size alone,
\* so two encoders of the same element type that hold one hold the same
\* one, whatever slice lengths they were given.
CacheFromSizeOnly ==
    (enc[1].vectored_impl # NoImpl /\ enc[2].vectored_impl # NoImpl)
        => enc[1].vectored_impl = enc[2].vectored_impl

\* C10, amended.  The cache is empty until the first encode_vectored call
\* of a non-empty batch, starts from the element size alone, is kept across
\* collects, and is overwritten on escalation: the cached strategy is the
\* one reached from the first width by doubling until the longest slice the
\* encoder was ever given fits.  Two encoders of the same element type
\* whose longest slices are equally long hold the same strategy.
CacheFromSizeAndLengths ==
    /\ \A e \in EncIds :
          enc[e].vectored_impl =
              IF trace[e].called
              THEN Escalate(MaxLenImpl(FirstWidth(T)), trace[e].maxseen, T)
              ELSE NoImpl
    /\ (trace[1].called /\ trace[2].called /\ trace[1].maxseen = trace[2].maxseen)
          => enc[1].vectored_impl = enc[2].vectored_impl

\* Encoder 1 was collected and reused and still holds the first width;
\* encoder 2, given a longer slice, holds the fallback.
CacheFromSizeAndLengthsWitness ==
    /\ T = "u8"
    /\ Idle(1)
    /\ trace[1].maxseen = 1
    /\ enc[1].vectored_impl = MaxLenImpl(8)
    /\ trace[2].maxseen = 65
    /\ enc[2].vectored_impl = FallbackImpl
    /\ Len(hist[2]) = 2

(***************************************************************************)
(* Boolean sessions: booleans are encoded into a BoolEncoder, collected,   *)
(* and a BoolDecoder is populated from the bytes.                          *)
(***************************************************************************)
\* How many booleans one reserve is followed by.
BoolCounts == {1, 7, 8, 9, MaxBools}

\* encode(&t) for the booleans lo..hi of bools.  (The range is walked in
\* halves, first half first.)
RECURSIVE BoolEncodeEach(_, _, _, _)
BoolEncodeEach(me, bools, lo, hi) ==
    IF lo > hi THEN me
    ELSE IF lo < hi
    THEN LET mid == (lo + hi) \div 2
             first == BoolEncodeEach(me, bools, lo, mid)
         IN After(first, BoolEncodeEach(first, bools, mid + 1, hi))
    ELSE BoolEncoder_encode(me, bools[lo])

\* The booleans encoded by the encodes h.
BoolCount(h) == SumSeq([j \in 1..Len(h) |-> h[j].elems])

InitBool ==
    /\ T = "bool"
    /\ kind = "Vec"
    /\ build = ReleaseBuild
    /\ InitCommon

\* reserve(k) and k encodes.
BoolEncode ==
    /\ dec.state = "default"
    /\ drains[1] = 0
    /\ Len(hist[1]) < MaxColls
    /\ \E k \in BoolCounts, step \in {0, 1} :
          /\ Len(benc.data) + k <= MaxBools
          /\ benc' = BoolEncodeEach(BoolEncoder_reserve(benc, k),
                                    Gen("bool", k, Len(benc.data) + 1, step), 1, k)
          /\ hist' = [hist EXCEPT ![1] = Append(@, [elems |-> k])]
    /\ UNCHANGED <<T, kind, build, wc, enc, outer, out, outBefore, sent, drains,
                   dec, input, fed, decoded, trace, bdec>>

\* collect_into(out)
BoolCollect ==
    /\ dec.state = "default"
    /\ drains[1] < 2
    /\ \E prefix \in OutPrefixes :
          LET r == BoolEncoder_collect_into(benc, prefix)
          IN /\ benc' = r.me
             /\ out' = r.out
             /\ outBefore' = prefix
    /\ sent' = hist[1]
    /\ hist' = [hist EXCEPT ![1] = <<>>]
    /\ drains' = [drains EXCEPT ![1] = @ + 1]
    /\ UNCHANGED <<T, kind, build, wc, enc, outer, dec, input, fed, decoded, trace, bdec>>

\* populate(&mut input, n) for the n booleans collected, on the collected
\* bytes, on a truncation of them, or on them and one more byte.
BoolPopulate ==
    /\ dec.state = "default"
    /\ drains[1] = 1
    /\ \E cut \in Cuts(Collected), more \in {<<>>, <<170>>} :
          LET bytes == IF cut = 0 THEN Collected \o more
                       ELSE SubSeq(Collected, 1, Len(Collected) - cut)
              r == BoolDecoder_populate(bdec, bytes, BoolCount(sent))
          IN /\ bdec' = r.me
             /\ input' = r.input
             /\ dec' = [dec EXCEPT !.state = IF r.ok THEN "ok" ELSE "err"]
             /\ fed' = [bytes |-> bytes, length |-> BoolCount(sent), cut |-> cut]
    /\ UNCHANGED <<T, kind, build, wc, enc, outer, hist, out, outBefore, sent, drains,
                   decoded, trace, benc>>

NextBool ==
    \/ BoolEncode
    \/ BoolCollect
    \/ BoolPopulate

SpecBool == InitBool /\ [][NextBool]_vars

\* C8. Bit-packed size: collect_into appends exactly ceil(n / 8) bytes for
\* the n booleans encoded (0 <= n <= MaxBools) and leaves the unpacked
\* buffer empty; populate(input, n) consumes exactly ceil(n / 8) bytes of
\* its input and unpacks n booleans, and fails exactly when the input holds
\* fewer bytes.
BitPackedSize ==
    /\ drains[1] >= 1 =>
          /\ Len(out) = Len(outBefore) + CeilDiv(BoolCount(sent), 8)
          /\ SubSeq(out, 1, Len(outBefore)) = outBefore
          /\ benc.data = <<>>
    /\ dec.state = "ok" =>
          /\ Len(fed.bytes) >= CeilDiv(fed.length, 8)
          /\ input = SubSeq(fed.bytes, CeilDiv(fed.length, 8) + 1, Len(fed.bytes))
          /\ Len(bdec.data) = fed.length
    /\ dec.state = "err" => Len(fed.bytes) < CeilDiv(fed.length, 8)

\* 1000 booleans became 125 bytes after the caller's byte, and populate
\* left the byte that followed them in the input.
BitPackedSizeWitness ==
    /\ BoolCount(sent) = 1000
    /\ outBefore = <<255>>
    /\ Len(Collected) = 125
    /\ dec.state = "ok"
    /\ input = <<170>>

(***************************************************************************)
(* unsafe_wild_copy! on its own: one copy of a slice of n elements, with   *)
(* 1 <= n <= N, from an address of the build into a destination that has   *)
(* room for a [T; N].                                                      *)
(***************************************************************************)
\* Pages the source addresses are taken from.
MaxPages == 2

\* A destination cell that holds what was there before the copy.
Stale == 0 - 2

\* The block widths the strategies of an element size go through.
RECURSIVE WidthsFrom(_, _)
WidthsFrom(impl, size) ==
    IF impl.k = "max_len"
    THEN {impl.N} \cup WidthsFrom(NextImpl(impl.N, size), size)
    ELSE {}

Widths(t) == WidthsFrom(FirstImpl(SizeOf(t)), SizeOf(t))

\* Offsets of a source in its page: the start of the page, its last
\* element, and for every width the offsets at which a [T; N] ends one
\* element before the end of the page, at the end of the page and one
\* element after it.
WildOffsets(t) ==
    {0, page_size - SizeOf(t)}
    \cup {page_size - (N + d) * SizeOf(t) : N \in Widths(t), d \in {0 - 1, 0, 1}}

WildAddrs(t) ==
    {p * page_size + off : p \in 0..(MaxPages - 1), off \in WildOffsets(t)}

InitWild ==
    /\ T \in ElemTypes
    /\ kind = "Vec"
    /\ build \in [wild : BOOLEAN, a0 : WildAddrs(T)]
    /\ InitCommon

\* unsafe_wild_copy!([T; N], src, dst, n) for a slice of n elements at the
\* build's address: wc keeps the call, the branch taken, the elements read
\* from src and the N cells at dst (and the one after them) before and after.
\* One copy is observed per behaviour.
WildCopy ==
    /\ ~wc.called
    /\ \E N \in Widths(T) : \E n \in 1..N :
          LET s == Gen(T, n, N, 1)
              src == SrcAddr(build.a0, 1)
              block == unsafe_wild_copy(T, N, s, src, build.wild)
              before == Repeat(Stale, N + 1)
          IN wc' = [called |-> TRUE, N |-> N, s |-> s, src |-> src,
                    wild |-> within_page(T, N, src, build.wild),
                    read |-> Len(block),
                    before |-> before,
                    after |-> Overwrite(before, 0, block)]
    /\ UNCHANGED <<T, kind, build, enc, outer, hist, out, outBefore, sent, drains,
                   dec, input, fed, decoded, trace, benc, bdec>>

NextWild == WildCopy

SpecWild == InitWild /\ [][NextWild]_vars

\* The destination cells a copy has changed.
WildWritten == {k \in 1..Len(wc.after) : wc.after[k] # wc.before[k]}

\* The [T; N] read at src ends at or before the end of the page of src.
WildFits == (wc.src % page_size) + wc.N * SizeOf(T) <= page_size

\* C11. Wild copy: for a copy of n elements, 1 <= n <= N, the whole
\* N-element block is read and written only when the N * size_of(T) bytes
\* at the source end at or before the end of the source's 4096-byte page
\* and the build allows it; otherwise exactly the n elements are read and
\* written; either way the first n destination elements are the n source
\* elements, at most the N cells of the block are written, and every byte
\* read past the slice lies in the page of the source.
WildCopySafe ==
    wc.called =>
       LET n == Len(wc.s)
       IN /\ 1 <= n /\ n <= wc.N
          /\ wc.wild =>
                /\ WildFits /\ build.wild
                /\ wc.read = wc.N
                /\ WildWritten = 1..wc.N
          /\ ~(WildFits /\ build.wild) => ~wc.wild
          /\ ~wc.wild => wc.read = n /\ WildWritten = 1..n
          /\ SubSeq(wc.after, 1, n) = wc.s
          /\ WildWritten \subseteq 1..wc.N
          /\ wc.read > n =>
                (wc.src + wc.read * SizeOf(T) - 1) \div page_size
                   = wc.src \div page_size

\* A release build copied fewer than N elements from the last address of
\* the second page at which the block is read whole: the cells after the
\* slice were read and written too.
WildCopySafeWitness ==
    /\ wc.called
    /\ wc.wild
    /\ Len(wc.s) < wc.N
    /\ wc.src = 2 * page_size - (wc.N + 1) * SizeOf(T)
    /\ wc.after[wc.N] = Garbage
    /\ wc.after[wc.N + 1] = Stale

====
